---- MODULE Spec2Model ----
(***************************************************************************)
(* Reactive expressions of param (doc/user_guide/Reactive_Expressions).    *)
(*                                                                         *)
(* The notebook's cells are the program: every section of the guide builds *)
(* a small graph of reactive roots and derived expressions, displays or    *)
(* watches some of them, and then assigns to the roots.  The cells are     *)
(* translated below as data (roots, recorded operations, displayed and     *)
(* watched expressions).  The engine that replays the recorded operations  *)
(* (param/reactive.py) is modelled after the guide's description of it:    *)
(* a root stores its value (_obj), a derived expression records its        *)
(* operation (_operation), a change of a root marks what is derived from   *)
(* it as out of date, and the value is re-computed when it is next         *)
(* resolved, which displayed and watched expressions do at once.           *)
(***************************************************************************)
EXTENDS Integers, Sequences, FiniteSets, TLC

\* ------------------------------------------------------------------ bounds

\* Integer roots range over 0..MaxVal.
MaxVal == 2

\* Number of rows of the data frame read from URL.
DfRows == 3

\* Number of Python versions of the test matrix that are run.
MaxVersions == 1

\* Lists have at most MaxLen items.
MaxLen == 3

Ints == 0 .. MaxVal

Colors == {"darkblue", "red"}

\* ------------------------------------------------- values of the notebook

\* An operand of a recorded operation: another reactive object, or a value.
Ref(name) == [ref |-> name]

Lit(value) == [lit |-> value]

\* An operand bound by keyword: name=value.
Kw(name, value) == [lit |-> value, kw |-> name]

IsRef(x) == "ref" \in DOMAIN x

IsKw(x) == "kw" \in DOMAIN x

Min(x, y) == IF x <= y THEN x ELSE y

\* rx(pd.read_csv(URL)): the rows of the frame, by index.
DF == [k \in 1 .. DfRows |-> k]

\* URL (penguins.csv) and the URL of the gapminders data set.
URL == "penguins.csv"

Gapminders == "gapminders.csv"

URLs == {URL, Gapminders}

\* The frame read from the gapminders URL: as many rows, other rows.
GapminderDF == [k \in 1 .. DfRows |-> k + DfRows]

\* The lists assigned to obj = rx([1, 2, 3]).
Lists == {[k \in 1 .. n |-> k] : n \in 0 .. MaxLen}

\* None, and an object that is not None.
None == "None"

Objects == {None, "object"}

\* 'color: white; background-color: {color}', as literal text and fields.
StyleWhite == <<"color: white; background-color: ", "{color}">>

StyleBlack == <<"color: black; background-color: ", "{color}">>

Styles == {StyleWhite, StyleBlack}

\* ------------------------------------------ functions the notebook defines

\* DataFrame.head(n): the first n rows, all of them when n exceeds the length.
head(df, n) == SubSeq(df, 1, Min(n, Len(df)))

\* pd.read_csv(url): the frame stored at the URL.
read_csv(url) == IF url = URL THEN DF ELSE GapminderDF

\* str.format(color=color): every {color} field replaced by the argument.
format(template, color) ==
    [k \in DOMAIN template |->
        IF template[k] = "{color}" THEN color ELSE template[k]]

\* Styler.apply(highlight_max, props=props, axis=0): the frame and the CSS
\* given to the maximum of each column.
apply(data, props) == [data |-> data, props |-> props]

\* def calculate(value): time.sleep(1); return value
calculate(value) == value

\* def expensive_function(a, b): ...; return a * b
expensive_function(a, b) == a * b

\* def add(a, b): ...; return a + b
add(a, b) == a + b

\* def f(a, b): return a + b
f(a, b) == a + b

\* The greatest common divisor of two naturals that are not both 0.
RECURSIVE GCD(_, _)
GCD(m, n) == IF n = 0 THEN m ELSE GCD(n, m % n)

\* a / b for integers a >= 0 and b > 0: the quotient, a float in Python,
\* as a fraction in lowest terms.
truediv(a, b) == [num |-> a \div GCD(a, b), den |-> b \div GCD(a, b)]

\* The parameters of a function, in the order of its definition.
Signature(func) == CASE func = "add" -> <<"a", "b">>

\* ------------------------------- the Python operations behind .rx methods

\* a and b: a when a is false, b otherwise (a is a bool)
and_(a, b) == IF a THEN b ELSE a

\* a or b: a when a is true, b otherwise (a is a bool)
or_(a, b) == IF a THEN a ELSE b

\* not a (a is a bool)
not_(a) == ~a

\* bool(a) (a is an int)
bool(a) == a # 0

\* a in b (b is a list)
in_(a, b) == \E k \in DOMAIN b : b[k] = a

\* a is b
is_(a, b) == a = b

\* a is not b
is_not(a, b) == a # b

\* len(a)
len(a) == Len(a)

\* ---------------------------------------- the expressions the cells build
\* A derived expression records the operation (fn) and its operands (args);
\* the first operand is the object the operation was applied to.

\* A mis-built j: made from the plain number i.rx.value, so not from i.
j_from_value == [fn |-> "__add__", args |-> <<Lit(1), Lit(1)>>]

\* j = i + 1
j == [fn |-> "__add__", args |-> <<Ref("i"), Lit(1)>>]

\* A mis-built head: df.head(nrows.rx.value), the number of rows as it was.
df_head_from_value == [fn |-> "head", args |-> <<Ref("df"), Lit(2)>>]

\* df.head(nrows)
df_head == [fn |-> "head", args |-> <<Ref("df"), Ref("nrows")>>]

\* style.format(color=color)
props == [fn |-> "format", args |-> <<Ref("style"), Ref("color")>>]

\* A mis-built style: style.format(color=color).rx.when(nrows), which
\* follows style and color only when nrows is updated.
styled_df_gated == [fn |-> "when", args |-> <<Ref("props"), Ref("nrows")>>]

\* styled_df = df.head(nrows).style.apply(highlight_max, props=..., axis=0)
styled_df == [fn |-> "apply", args |-> <<Ref("df_head"), Ref("props")>>]

\* A mis-built sum: p.param.a.rx() + p.b, the value of p.b as it was.
a_plus_b_from_value == [fn |-> "__add__", args |-> <<Ref("a"), Lit(0)>>]

\* p.param.a.rx() + p.param.b.rx()
a_plus_b == [fn |-> "__add__", args |-> <<Ref("a"), Ref("b")>>]

\* A mis-built chain: (p.param.a.rx() + p.param.b.rx()).rx.value + 3, the
\* sum as it was.
expr_from_value == [fn |-> "__add__", args |-> <<Lit(1), Lit(3)>>]

\* expr = p.param.a.rx() + p.param.b.rx() + 3
expr == [fn |-> "__add__", args |-> <<Ref("a_plus_b"), Lit(3)>>]

\* A mis-built pipe: rx(expr.rx.value).rx.pipe(calculate), not fed by expr.
piped_from_value == [fn |-> "pipe", args |-> <<Lit(1), Lit("calculate")>>]

\* expr.rx.pipe(calculate)
piped == [fn |-> "pipe", args |-> <<Ref("expr"), Lit("calculate")>>]

\* updating = expr.rx.pipe(calculate).rx.updating()
updating == [fn |-> "updating", args |-> <<Ref("piped")>>]

\* A mis-built call: rx(expensive_function)(a.rx.value, b), a as it was.
expensive_expr_from_value ==
    [fn |-> "__call__",
     args |-> <<Lit("expensive_function"), Lit(1), Ref("b")>>]

\* expensive_expr = rx(expensive_function)(a, b)
expensive_expr ==
    [fn |-> "__call__",
     args |-> <<Lit("expensive_function"), Ref("a"), Ref("b")>>]

\* A mis-built gate: expensive_expr.rx.when(a, b, gate).
gated_expr_by_all ==
    [fn |-> "when",
     args |-> <<Ref("expensive_expr"), Ref("a"), Ref("b"), Ref("gate")>>]

\* A mis-built gate: expensive_expr.rx.when(a).
gated_expr_by_a == [fn |-> "when", args |-> <<Ref("expensive_expr"), Ref("a")>>]

\* gated_expr = expensive_expr.rx.when(gate)
gated_expr == [fn |-> "when", args |-> <<Ref("expensive_expr"), Ref("gate")>>]

\* A mis-built conditional: condition.rx.where(b, a).
ternary_expr_swapped ==
    [fn |-> "where", args |-> <<Ref("condition"), Ref("b"), Ref("a")>>]

\* A mis-built conditional: condition.rx.where(a, a).
ternary_expr_same ==
    [fn |-> "where", args |-> <<Ref("condition"), Ref("a"), Ref("a")>>]

\* ternary_expr = condition.rx.where(a, b)
ternary_expr ==
    [fn |-> "where", args |-> <<Ref("condition"), Ref("a"), Ref("b")>>]

\* A mis-built frame: rx(pd.read_csv)(url.rx.value), the URL as it was.
rx_read_csv_from_value ==
    [fn |-> "__call__", args |-> <<Lit("read_csv"), Lit(URL)>>]

\* df = rx(pd.read_csv)(url)
rx_read_csv == [fn |-> "__call__", args |-> <<Lit("read_csv"), Ref("url")>>]

\* df.head(2)
df_head_2 == [fn |-> "head", args |-> <<Ref("df"), Lit(2)>>]

\* A mis-built pipe: rx(x.rx.value).rx.pipe(f, 2), not fed by x.
pipe_f_2_from_value == [fn |-> "pipe", args |-> <<Lit(1), Lit("f"), Lit(2)>>]

\* rx(1).rx.pipe(f, 2), the rx(1) being called x
pipe_f_2 == [fn |-> "pipe", args |-> <<Ref("x"), Lit("f"), Lit(2)>>]

\* x.rx.pipe(f, y) for a reactive argument y = rx(2)
pipe_f_y == [fn |-> "pipe", args |-> <<Ref("x"), Lit("f"), Ref("y")>>]

\* rx(True).rx.and_(False)
rx_and_ == [fn |-> "and_", args |-> <<Ref("rx_True"), Lit(FALSE)>>]

\* rx(False).rx.or_('A value')
rx_or_ == [fn |-> "or_", args |-> <<Ref("rx_False"), Lit("A value")>>]

\* rx(True).rx.not_()
rx_not_ == [fn |-> "not_", args |-> <<Ref("rx_True")>>]

\* rx(2).rx.in_([1, 2, 3])
rx_in_ == [fn |-> "in_", args |-> <<Ref("rx_2"), Lit(<<1, 2, 3>>)>>]

\* rx(2).rx.bool()
rx_bool == [fn |-> "bool", args |-> <<Ref("rx_2")>>]

\* rx(None).rx.is_(None)
rx_is_ == [fn |-> "is_", args |-> <<Ref("rx_None"), Lit(None)>>]

\* rx(None).rx.is_not(None)
rx_is_not == [fn |-> "is_not", args |-> <<Ref("rx_None"), Lit(None)>>]

\* A mis-built length: rx(obj.rx.value).rx.len(), the list as it was.
rx_len_from_value == [fn |-> "len", args |-> <<Lit(<<1, 2, 3>>)>>]

\* obj.rx.len() for obj = rx([1, 2, 3])
rx_len == [fn |-> "len", args |-> <<Ref("obj")>>]

\* A mis-bound function: param.bind(add, p.a, p.b), the values as they were.
reactive_add_by_value ==
    [fn |-> "bind", args |-> <<Lit("add"), Lit(1), Lit(0)>>]

\* reactive_add = param.bind(add, p.param.a, p.param.b)
reactive_add == [fn |-> "bind", args |-> <<Lit("add"), Ref("a"), Ref("b")>>]

\* A mis-bound function: param.bind(add, p.param.b).
add_b_bound_to_b == [fn |-> "bind", args |-> <<Lit("add"), Ref("b")>>]

\* add_b = param.bind(add, p.param.a)
add_b == [fn |-> "bind", args |-> <<Lit("add"), Ref("a")>>]

\* param.bind(add, p.param.a, b=38)
add_a_38 == [fn |-> "bind", args |-> <<Lit("add"), Ref("a"), Kw("b", 38)>>]

\* A mis-bound function: param.bind(add, p.param.a, p.b).rx().
bound_rx_static_b == [fn |-> "bind", args |-> <<Lit("add"), Ref("a"), Lit(0)>>]

\* param.bind(add, p.param.a, p.param.b).rx()
bound_rx == [fn |-> "bind", args |-> <<Lit("add"), Ref("a"), Ref("b")>>]

\* param.bind(add, p.param.a, p.param.b).rx() / 2
bound_rx_half == [fn |-> "__truediv__", args |-> <<Ref("bound_rx"), Lit(2)>>]

\* ------------------------------------------------ the notebook's sections
\* roots: the values the section makes reactive, with their first value;
\* exprs: the expressions it derives; watchers: what it displays (the last
\* expression of a cell) or watches, in the order of registration.

Display(name) == [node |-> name, kind |-> "display"]

\* A watch that lost its callback: c.rx.watch().
Watch_no_callback(name) == [node |-> name, kind |-> "eager"]

Watch(name) == [node |-> name, kind |-> "watch"]

Eager(name) == [node |-> name, kind |-> "eager"]

how_it_works ==
    [roots |-> [i |-> 1],
     exprs |-> [j |-> j],
     watchers |-> <<>>]

getting_started ==
    [roots |-> [nrows |-> 2, df |-> DF, style |-> StyleWhite,
                color |-> "darkblue"],
     exprs |-> [df_head |-> df_head, props |-> props,
                styled_df |-> styled_df],
     watchers |-> <<Display("df_head"), Display("styled_df")>>]

parameters ==
    [roots |-> [a |-> 1, b |-> 0],
     exprs |-> [a_plus_b |-> a_plus_b, expr |-> expr],
     watchers |-> <<Display("expr")>>]

rx_updating ==
    [roots |-> [expr |-> 1],
     exprs |-> [piped |-> piped, updating |-> updating],
     watchers |-> <<Display("updating")>>]

rx_when ==
    [roots |-> [a |-> 1, b |-> 2, gate |-> FALSE],
     exprs |-> [expensive_expr |-> expensive_expr, gated_expr |-> gated_expr],
     watchers |-> <<Display("gated_expr")>>]

rx_where ==
    [roots |-> [condition |-> TRUE, a |-> 1, b |-> 2],
     exprs |-> [ternary_expr |-> ternary_expr],
     watchers |-> <<Display("ternary_expr")>>]

rx_watch ==
    [roots |-> [c |-> 1],
     exprs |-> <<>>,
     watchers |-> <<Watch("c"), Display("c")>>]

reactive_functions ==
    [roots |-> [url |-> URL],
     exprs |-> [df |-> rx_read_csv, df_head_2 |-> df_head_2],
     watchers |-> <<Display("df_head_2")>>]

rx_pipe ==
    [roots |-> [x |-> 1, y |-> 2],
     exprs |-> [pipe_f_2 |-> pipe_f_2, pipe_f_y |-> pipe_f_y],
     watchers |-> <<Display("pipe_f_2"), Display("pipe_f_y")>>]

special_and_or ==
    [roots |-> [rx_True |-> TRUE, rx_False |-> FALSE],
     exprs |-> [rx_and_ |-> rx_and_, rx_or_ |-> rx_or_, rx_not_ |-> rx_not_],
     watchers |-> <<Display("rx_and_"), Display("rx_not_"),
                    Display("rx_or_")>>]

special_in_bool ==
    [roots |-> [rx_2 |-> 2],
     exprs |-> [rx_bool |-> rx_bool, rx_in_ |-> rx_in_],
     watchers |-> <<Display("rx_bool"), Display("rx_in_")>>]

special_is ==
    [roots |-> [rx_None |-> None],
     exprs |-> [rx_is_ |-> rx_is_, rx_is_not |-> rx_is_not],
     watchers |-> <<Display("rx_is_"), Display("rx_is_not")>>]

special_len ==
    [roots |-> [obj |-> <<1, 2, 3>>],
     exprs |-> [rx_len |-> rx_len],
     watchers |-> <<Display("rx_len")>>]

param_bind ==
    [roots |-> [a |-> 1, b |-> 0],
     exprs |-> [reactive_add |-> reactive_add, add_a_38 |-> add_a_38],
     watchers |-> <<Display("reactive_add"), Display("add_a_38")>>]

bind_rx ==
    [roots |-> [a |-> 1, b |-> 0],
     exprs |-> [bound_rx |-> bound_rx, bound_rx_half |-> bound_rx_half],
     watchers |-> <<Display("bound_rx_half")>>]

Sections ==
    {"how_it_works", "getting_started", "parameters", "rx_updating",
     "rx_when", "rx_where", "rx_watch", "reactive_functions", "rx_pipe",
     "special_and_or", "special_in_bool", "special_is", "special_len",
     "param_bind", "bind_rx"}

\* The sections whose roots are Parameters of p = Parameters().
ParameterSections == {"parameters", "param_bind", "bind_rx"}

\* The functions param.bind returned, by the name they are called with.
Bound(s) ==
    IF s = "param_bind"
        THEN [reactive_add |-> reactive_add, add_b |-> add_b,
              add_a_38 |-> add_a_38]
        ELSE <<>>

\* The arguments of the calls of bound functions: add_b(5) and the like.
CallValues == Ints \cup {5}

CallArgs == {<<>>} \cup {<<v>> : v \in CallValues}

Section(s) ==
    CASE s = "how_it_works" -> how_it_works
      [] s = "getting_started" -> getting_started
      [] s = "parameters" -> parameters
      [] s = "rx_updating" -> rx_updating
      [] s = "rx_when" -> rx_when
      [] s = "rx_where" -> rx_where
      [] s = "rx_watch" -> rx_watch
      [] s = "reactive_functions" -> reactive_functions
      [] s = "rx_pipe" -> rx_pipe
      [] s = "special_and_or" -> special_and_or
      [] s = "special_in_bool" -> special_in_bool
      [] s = "special_is" -> special_is
      [] s = "special_len" -> special_len
      [] s = "param_bind" -> param_bind
      [] s = "bind_rx" -> bind_rx

\* The values an assignment may give a root (df is not assigned to).
Assignable(s) ==
    CASE s = "how_it_works" -> [i |-> Ints]
      [] s = "getting_started" ->
            [nrows |-> Ints, style |-> Styles, color |-> Colors]
      [] s = "parameters" -> [a |-> Ints, b |-> Ints]
      [] s = "rx_updating" -> [expr |-> Ints]
      [] s = "rx_when" -> [a |-> Ints, b |-> Ints, gate |-> BOOLEAN]
      [] s = "rx_where" -> [condition |-> BOOLEAN, a |-> Ints, b |-> Ints]
      [] s = "rx_watch" -> [c |-> Ints]
      [] s = "reactive_functions" -> [url |-> URLs]
      [] s = "rx_pipe" -> [x |-> Ints, y |-> Ints]
      [] s = "special_and_or" -> [rx_True |-> BOOLEAN, rx_False |-> BOOLEAN]
      [] s = "special_in_bool" -> [rx_2 |-> Ints]
      [] s = "special_is" -> [rx_None |-> Objects]
      [] s = "special_len" -> [obj |-> Lists]
      [] s = "param_bind" -> [a |-> Ints, b |-> Ints]
      [] s = "bind_rx" -> [a |-> Ints, b |-> Ints]

Roots(s) == DOMAIN Section(s).roots

Exprs(s) == DOMAIN Section(s).exprs

Expr(s, n) == Section(s).exprs[n]

IsRoot(s, n) == n \in Roots(s)

\* ------------------------------------------------------------- the state

VARIABLES
    section,    \* the section of the notebook that is being run
    obj,        \* root -> the value it stores (_obj)
    current,    \* derived expression -> its most recent result (_current_)
    dirty,      \* derived expression -> an input changed since that result
    watchers,   \* what is displayed or watched, in order of registration
    pc,         \* where the assignment in progress is: "idle" if none is
    pending,    \* the root whose assignment is in progress
    last,       \* the statement that ran last
    ran,        \* the operations that statement executed, in order
    out,        \* what that statement showed or passed to callbacks
    plain,      \* the concrete value the last call of a bound function gave
    event,      \* the event that triggered the run of the tests workflow
    status,     \* job of that run -> where it is
    trigger,    \* the pull request or ref that run was triggered for
    other       \* another run of the workflow: what for, and where it is

vars ==
    <<section, obj, current, dirty, watchers, pc, pending, last, ran, out,
      plain, event, status, trigger, other>>

\* The engine works on the part of the state a resolution may change.
State == [current |-> current, dirty |-> dirty, ran |-> ran, out |-> out]

\* ------------------------------------------------------------ the engine

\* Operator and method calls on the wrapped objects.
Call(func, v) ==
    CASE func = "calculate" -> calculate(v[1])
      [] func = "expensive_function" -> expensive_function(v[1], v[2])
      [] func = "add" -> add(v[1], v[2])
      [] func = "read_csv" -> read_csv(v[1])
      [] func = "f" -> f(v[1], v[2])

\* Apply a recorded operation to the current values of its operands.
EvalOperation(fn, v) ==
    CASE fn = "__add__" -> v[1] + v[2]
      [] fn = "__call__" -> Call(v[1], Tail(v))
      [] fn = "pipe" -> Call(v[2], <<v[1]>> \o Tail(Tail(v)))
      [] fn = "head" -> head(v[1], v[2])
      [] fn = "format" -> format(v[1], v[2])
      [] fn = "apply" -> apply(v[1], v[2])
      [] fn = "and_" -> and_(v[1], v[2])
      [] fn = "or_" -> or_(v[1], v[2])
      [] fn = "not_" -> not_(v[1])
      [] fn = "bool" -> bool(v[1])
      [] fn = "in_" -> in_(v[1], v[2])
      [] fn = "is_" -> is_(v[1], v[2])
      [] fn = "is_not" -> is_not(v[1], v[2])
      [] fn = "len" -> len(v[1])
      [] fn = "bind" -> Call(v[1], Tail(v))
      [] fn = "__truediv__" -> truediv(v[1], v[2])

\* The current value of an operand: a plain value, a root's stored value or a
\* derived expression's most recent result.
ValueOf(s, o, st, x) ==
    IF ~IsRef(x) THEN x.lit
    ELSE IF IsRoot(s, x.ref) THEN o[x.ref]
    ELSE st.current[x.ref]

RefsOf(e) == {e.args[k].ref : k \in {k \in DOMAIN e.args : IsRef(e.args[k])}}

RECURSIVE SeqOf(_)
SeqOf(S) ==
    IF S = {} THEN <<>>
    ELSE LET x == CHOOSE x \in S : TRUE IN <<x>> \o SeqOf(S \ {x})

\* The roots a change of which an expression is told of.  An expression made
\* by rx.when listens to its gate alone; one made by rx.where listens to its
\* condition and to the branch the condition selects; rx.updating() is a
\* value of its own, set by the engine.
RECURSIVE Params(_, _, _, _)
Params(s, o, st, n) ==
    IF IsRoot(s, n) THEN {n}
    ELSE LET e == Expr(s, n)
             of(x) == IF IsRef(x) THEN Params(s, o, st, x.ref) ELSE {}
         IN CASE e.fn = "when" ->
                    UNION {of(e.args[k]) : k \in 2 .. Len(e.args)}
              [] e.fn = "where" ->
                    of(e.args[1]) \cup
                    (IF ValueOf(s, o, st, e.args[1])
                        THEN of(e.args[2]) ELSE of(e.args[3]))
              [] e.fn = "updating" -> {}
              [] OTHER -> UNION {of(e.args[k]) : k \in DOMAIN e.args}

\* The rx.updating() values an expression is derived from.
RECURSIVE Flags(_, _)
Flags(s, n) ==
    IF IsRoot(s, n) THEN {}
    ELSE IF Expr(s, n).fn = "updating" THEN {n}
    ELSE UNION {Flags(s, m) : m \in RefsOf(Expr(s, n))}

\* rx._resolve: the most recent result, the recorded operation being applied
\* again, operands first, only if the expression is out of date.  top is the
\* expression whose value was asked for.
RECURSIVE Resolve(_, _, _, _, _)
Resolve(s, o, top, n, st) ==
    IF IsRoot(s, n) \/ Expr(s, n).fn = "updating" \/ ~st.dirty[n] THEN st
    ELSE
    LET e == Expr(s, n)
        sub(x, t) == IF IsRef(x) THEN Resolve(s, o, top, x.ref, t) ELSE t
        done(t, v) ==
            [t EXCEPT !.current = [@ EXCEPT ![n] = v],
                      !.dirty = [@ EXCEPT ![n] = FALSE]]
    IN  CASE e.fn = "when" ->
                LET t == sub(e.args[1], st)
                IN  done(t, ValueOf(s, o, t, e.args[1]))
          [] e.fn = "where" ->
                LET t == sub(e.args[1], st)
                    x == IF ValueOf(s, o, t, e.args[1])
                            THEN e.args[2] ELSE e.args[3]
                    u == sub(x, t)
                IN  done(u, ValueOf(s, o, u, x))
          [] OTHER ->
                LET RECURSIVE operands(_, _)
                    operands(k, t) ==
                        IF k > Len(e.args) THEN t
                        ELSE operands(k + 1, sub(e.args[k], t))
                    t == operands(1, st)
                    v == [k \in DOMAIN e.args |-> ValueOf(s, o, t, e.args[k])]
                    r == [via |-> top, node |-> n, args |-> v]
                IN  done([t EXCEPT !.ran = Append(@, r)],
                         EvalOperation(e.fn, v))

\* rx.value (read): the value of a root or of an expression once resolved.
Value(s, o, st, n) == ValueOf(s, o, Resolve(s, o, n, n, st), Ref(n))

\* A watcher runs: the expression is resolved and, unless the watcher has no
\* callback, its value is shown or passed to the callback.
Fire(s, o, w, st) ==
    LET t == Resolve(s, o, w.node, w.node, st)
        e == [kind |-> w.kind, node |-> w.node,
              value |-> ValueOf(s, o, t, Ref(w.node))]
    IN  IF w.kind = "eager" THEN t ELSE [t EXCEPT !.out = Append(@, e)]

\* The watchers ws that hit(w) selects run in the order of registration.
RECURSIVE Notify(_, _, _, _, _, _)
Notify(s, o, ws, k, hit, st) ==
    IF k > Len(ws) THEN st
    ELSE Notify(s, o, ws, k + 1, hit,
                IF hit[k] THEN Fire(s, o, ws[k], st) ELSE st)

\* _invalidate_current: what is derived from root r is out of date.
Invalidate(s, o, r, st) ==
    [st EXCEPT !.dirty =
        [n \in Exprs(s) |-> st.dirty[n] \/ r \in Params(s, o, st, n)]]

\* The rx.updating() values of the expressions that root r feeds.
Updating(s, o, r, st) ==
    {u \in Exprs(s) :
        /\ Expr(s, u).fn = "updating"
        /\ r \in Params(s, o, st, Expr(s, u).args[1].ref)}

\* The updating values U become v; what is derived from them is out of date
\* and their watchers run.
Toggle(s, o, ws, U, v, st) ==
    LET t == [st EXCEPT
                !.current = [n \in Exprs(s) |-> IF n \in U THEN v ELSE @[n]],
                !.dirty = [n \in Exprs(s) |->
                            @[n] \/ (n \notin U /\ Flags(s, n) \cap U # {})]]
        hit == [k \in DOMAIN ws |-> Flags(s, ws[k].node) \cap U # {}]
    IN  Notify(s, o, ws, 1, hit, t)

\* The expressions the updating values U report on are resolved.
RECURSIVE ResolveAll(_, _, _, _)
ResolveAll(s, o, us, st) ==
    IF us = <<>> THEN st
    ELSE ResolveAll(s, o, Tail(us),
            Resolve(s, o, Head(us), Expr(s, Head(us)).args[1].ref, st))

\* --------------------------------------------------------- the statements

\* Every expression of a section is shown or read in the cell that builds it,
\* so each has been resolved once when the section's assignments begin.
Built(s) ==
    LET RECURSIVE all(_, _)
        all(ns, st) ==
            IF ns = <<>> THEN st
            ELSE all(Tail(ns),
                     Resolve(s, Section(s).roots, Head(ns), Head(ns), st))
    IN  all(SeqOf(Exprs(s)),
            [current |-> [n \in Exprs(s) |->
                            IF Expr(s, n).fn = "updating"
                                THEN FALSE ELSE "Undefined"],
             dirty |-> [n \in Exprs(s) |-> Expr(s, n).fn # "updating"],
             ran |-> <<>>,
             out |-> <<>>])

\* The expressions of a section built and shown with the roots holding o.
BuiltFrom(s, o) ==
    LET RECURSIVE all(_, _)
        all(ns, st) ==
            IF ns = <<>> THEN st
            ELSE all(Tail(ns), Resolve(s, o, Head(ns), Head(ns), st))
    IN  all(SeqOf(Exprs(s)),
            [current |-> [n \in Exprs(s) |->
                            IF Expr(s, n).fn = "updating"
                                THEN FALSE ELSE "Undefined"],
             dirty |-> [n \in Exprs(s) |-> Expr(s, n).fn # "updating"],
             ran |-> <<>>,
             out |-> <<>>])

Init ==
    /\ section \in Sections
    /\ obj = Section(section).roots
    /\ current = Built(section).current
    /\ dirty = Built(section).dirty
    /\ watchers = Section(section).watchers
    /\ pc = "idle"
    /\ pending = ""
    /\ last = [op |-> "init"]
    /\ ran = <<>>
    /\ out = <<>>
    /\ plain = <<>>
    /\ event = "none"
    /\ status = <<>>
    /\ trigger = [number |-> "", ref |-> ""]
    /\ other = [number |-> "", ref |-> "", state |-> "none"]

\* A statement starts with nothing executed and nothing shown.
Fresh == [State EXCEPT !.ran = <<>>, !.out = <<>>]

Becomes(st) ==
    /\ current' = st.current
    /\ dirty' = st.dirty
    /\ ran' = st.ran
    /\ out' = st.out

\* An assignment that stores v in every Parameter of the object, as if the
\* Parameters shared one stored value.
Assign_to_all(r, v) ==
    /\ pc = "idle"
    /\ r \in DOMAIN Assignable(section)
    /\ v \in Assignable(section)[r]
    /\ last' = [op |-> "set", name |-> r, old |-> obj[r], new |-> v]
    /\ ran' = <<>>
    /\ out' = <<>>
    /\ IF v = obj[r]
          THEN UNCHANGED <<obj, pc, pending>>
          ELSE /\ obj' = IF section \in ParameterSections
                            THEN [x \in DOMAIN obj |-> v]
                            ELSE [obj EXCEPT ![r] = v]
               /\ pc' = "pre"
               /\ pending' = r
    /\ UNCHANGED <<section, current, dirty, watchers>>
    /\ UNCHANGED <<plain, event, status, trigger, other>>

\* The assignment of v to root r begins: the value is stored, and watchers
\* are told only if it differs from the stored one.
Assign(r, v) ==
    /\ pc = "idle"
    /\ r \in DOMAIN Assignable(section)
    /\ v \in Assignable(section)[r]
    /\ last' = [op |-> "set", name |-> r, old |-> obj[r], new |-> v]
    /\ ran' = <<>>
    /\ out' = <<>>
    /\ IF v = obj[r]
          THEN UNCHANGED <<obj, pc, pending>>
          ELSE /\ obj' = [obj EXCEPT ![r] = v]
               /\ pc' = "pre"
               /\ pending' = r
    /\ UNCHANGED <<section, current, dirty, watchers>>
    /\ UNCHANGED <<plain, event, status, trigger, other>>

\* r.rx.value = v
SetRxValue(r, v) ==
    /\ section \notin ParameterSections
    /\ Assign(r, v)

\* p.a = v, p.b = v: attribute assignment to a Parameter
SetParameter(r, v) ==
    /\ section \in ParameterSections
    /\ Assign(r, v)

\* The first watchers of an assignment (precedence -999): the updating value
\* of every expression the root feeds becomes True.
Pre ==
    /\ pc = "pre"
    /\ LET U == Updating(section, obj, pending, State)
           st == ResolveAll(section, obj, SeqOf(U), State)
       IN  Becomes(Toggle(section, obj, watchers, U, TRUE, st))
    /\ pc' = "invalidate"
    /\ UNCHANGED <<section, obj, watchers, pending, last>>
    /\ UNCHANGED <<plain, event, status, trigger, other>>

\* Precedence -1: what is derived from the root is marked out of date.
InvalidateCurrent ==
    /\ pc = "invalidate"
    /\ Becomes(Invalidate(section, obj, pending, State))
    /\ pc' = "notify"
    /\ UNCHANGED <<section, obj, watchers, pending, last>>
    /\ UNCHANGED <<plain, event, status, trigger, other>>

\* Precedence 0 and up: displayed and watched expressions derived from the
\* root are resolved and shown.
NotifyWatchers ==
    /\ pc = "notify"
    /\ LET hit == [k \in DOMAIN watchers |->
                    pending \in Params(section, obj, State, watchers[k].node)]
       IN  Becomes(Notify(section, obj, watchers, 1, hit, State))
    /\ pc' = "post"
    /\ UNCHANGED <<section, obj, watchers, pending, last>>
    /\ UNCHANGED <<plain, event, status, trigger, other>>

\* The last watchers (precedence 999): the expressions that report updating
\* are resolved and their updating value becomes False; the assignment
\* statement returns.
Post ==
    /\ pc = "post"
    /\ LET U == Updating(section, obj, pending, State)
           st == ResolveAll(section, obj, SeqOf(U), State)
       IN  Becomes(Toggle(section, obj, watchers, U, FALSE, st))
    /\ pc' = "idle"
    /\ pending' = ""
    /\ UNCHANGED <<section, obj, watchers, last>>
    /\ UNCHANGED <<plain, event, status, trigger, other>>

\* n.rx.value (read)
ReadValue(n) ==
    /\ pc = "idle"
    /\ n \in Roots(section) \cup Exprs(section)
    /\ LET st == Resolve(section, obj, n, n, Fresh)
       IN  /\ Becomes(st)
           /\ last' = [op |-> "read", name |-> n,
                       value |-> ValueOf(section, obj, st, Ref(n))]
    /\ UNCHANGED <<section, obj, watchers, pc, pending>>
    /\ UNCHANGED <<plain, event, status, trigger, other>>

\* n.rx.watch() without arguments
RxWatch(n) ==
    /\ pc = "idle"
    /\ n \in Exprs(section)
    /\ \A k \in DOMAIN watchers : watchers[k] # Eager(n)
    /\ watchers' = Append(watchers, Eager(n))
    /\ last' = [op |-> "watch", name |-> n]
    /\ ran' = <<>>
    /\ out' = <<>>
    /\ UNCHANGED <<section, obj, current, dirty, pc, pending>>
    /\ UNCHANGED <<plain, event, status, trigger, other>>

\* The arguments a call n(*c) of a bound function passes on, as
\* functools.partial does: the bound positional arguments, then the call's
\* own, then the arguments bound by keyword, each under its name.
PartialArgs(s, o, st, n, c) ==
    LET bound == Tail(Bound(s)[n].args)
        func == Bound(s)[n].args[1].lit
        given == SelectSeq(bound, LAMBDA x : ~IsKw(x))
        named == SelectSeq(bound, LAMBDA x : IsKw(x))
        first == [k \in DOMAIN given |-> ValueOf(s, o, st, given[k])] \o c
    IN  [k \in DOMAIN Signature(func) |->
            IF k <= Len(first) THEN first[k]
            ELSE LET x == CHOOSE y \in {named[m] : m \in DOMAIN named} :
                                y.kw = Signature(func)[k]
                 IN  x.lit]

\* n(*c): the call of a bound function with the arguments it still needs;
\* the function runs and the caller gets a concrete value.
CallBound(n, c) ==
    /\ pc = "idle"
    /\ n \in DOMAIN Bound(section)
    /\ Len(Tail(Bound(section)[n].args)) + Len(c) =
            Len(Signature(Bound(section)[n].args[1].lit))
    /\ LET func == Bound(section)[n].args[1].lit
           v == PartialArgs(section, obj, State, n, c)
       IN  /\ ran' = <<[via |-> n, node |-> n, args |-> <<func>> \o v]>>
           /\ plain' = <<Call(func, v)>>
           /\ last' = [op |-> "call", name |-> n, args |-> c,
                       value |-> Call(func, v)]
    /\ out' = <<>>
    /\ UNCHANGED <<section, obj, current, dirty, watchers, pc, pending>>
    /\ UNCHANGED <<event, status, trigger, other>>

BoundNames == {"reactive_add", "add_b", "add_a_38"}

Names ==
    {"i", "j", "nrows", "df", "style", "color", "df_head", "props",
     "styled_df", "a", "b", "a_plus_b", "expr", "piped", "updating",
     "gate", "expensive_expr", "gated_expr", "condition", "ternary_expr",
     "c", "url", "df_head_2", "x", "y", "pipe_f_2", "pipe_f_y",
     "rx_True", "rx_False", "rx_and_", "rx_or_", "rx_not_", "rx_2",
     "rx_bool", "rx_in_", "rx_None", "rx_is_", "rx_is_not", "obj", "rx_len",
     "reactive_add", "add_a_38", "bound_rx", "bound_rx_half"}

Next ==
    \/ \E r \in DOMAIN Assignable(section) :
          \E v \in Assignable(section)[r] : SetRxValue(r, v)
    \/ \E r \in DOMAIN Assignable(section) :
          \E v \in Assignable(section)[r] : SetParameter(r, v)
    \/ Pre
    \/ InvalidateCurrent
    \/ NotifyWatchers
    \/ Post
    \/ \E n \in Names : ReadValue(n)
    \/ \E n \in Names : RxWatch(n)
    \/ \E n \in BoundNames : \E c \in CallArgs : CallBound(n, c)

Spec == Init /\ [][Next]_vars

\* ------------------------------------------------------ the tests workflow
\* .github/workflows/test.yaml, as GitHub Actions runs it.  A job is named
\* by <<job id, platform, python-version>>; it is queued, then in_progress,
\* and ends with a conclusion: success, failure, cancelled or skipped.

\* on: push (to main), pull_request, workflow_dispatch, schedule
Events == {"push", "pull_request", "workflow_dispatch", "schedule"}

\* matrix.platform
Platforms == {"ubuntu-latest", "windows-latest", "macos-latest"}

\* matrix.python-version: the long list for scheduled and manual runs (a
\* push of a tag does not trigger the workflow), the short one otherwise.
PythonVersions(e) ==
    IF e \in {"schedule", "workflow_dispatch"}
        THEN <<"3.8", "3.9", "3.10", "3.11", "3.12", "pypy3.9">>
        ELSE <<"3.8", "3.10", "3.12">>

pre_commit == <<"pre_commit", "", "">>

\* The jobs of the test_suite matrix.
test_suite(e) ==
    {<<"test_suite", platform, PythonVersions(e)[k]>> :
        platform \in Platforms,
        k \in 1 .. Min(MaxVersions, Len(PythonVersions(e)))}

Jobs(e) == {pre_commit} \cup test_suite(e)

\* A test_suite that lost its needs.
Needs_nothing(id) == {}

\* needs:
Needs(id) == IF id = "test_suite" THEN {"pre_commit"} ELSE {}

\* strategy.fail-fast
FailFast == FALSE

Concluded == {"success", "failure", "cancelled", "skipped"}

\* The jobs that a job needs.
Needed(job) == {k \in DOMAIN status : k[1] \in Needs(job[1])}

notebook ==
    <<section, obj, current, dirty, watchers, pc, pending, last, ran, out,
      plain>>

\* An event triggers a run: all its jobs are queued.
InitRun ==
    /\ event \in Events
    /\ status = [job \in Jobs(event) |-> "queued"]
    /\ trigger = [number |-> "", ref |-> ""]
    /\ other = [number |-> "", ref |-> "", state |-> "none"]
    /\ section = "none"
    /\ obj = <<>>
    /\ current = <<>>
    /\ dirty = <<>>
    /\ watchers = <<>>
    /\ pc = "idle"
    /\ pending = ""
    /\ last = [op |-> "init"]
    /\ ran = <<>>
    /\ out = <<>>
    /\ plain = <<>>

\* A queued job starts once every job it needs has succeeded.
StartJob(job) ==
    /\ status[job] = "queued"
    /\ \A k \in Needed(job) : status[k] = "success"
    /\ status' = [status EXCEPT ![job] = "in_progress"]
    /\ UNCHANGED <<event, trigger, other, notebook>>

\* A queued job is skipped once a job it needs has ended otherwise.
SkipJob(job) ==
    /\ status[job] = "queued"
    /\ \E k \in Needed(job) : status[k] \in Concluded \ {"success"}
    /\ status' = [status EXCEPT ![job] = "skipped"]
    /\ UNCHANGED <<event, trigger, other, notebook>>

\* The steps of a job end: all passed, or one failed (or the job ran into
\* timeout-minutes).  Under fail-fast the failure of a job of the matrix
\* cancels the jobs of the matrix that have not ended.
FinishJob(job, conclusion) ==
    /\ status[job] = "in_progress"
    /\ conclusion \in {"success", "failure"}
    /\ status' =
            [k \in DOMAIN status |->
                IF k = job THEN conclusion
                ELSE IF /\ FailFast
                        /\ conclusion = "failure"
                        /\ k[1] = job[1]
                        /\ status[k] \notin Concluded
                    THEN "cancelled"
                    ELSE status[k]]
    /\ UNCHANGED <<event, trigger, other, notebook>>

\* The run is cancelled (by hand, or by a newer run of its concurrency
\* group): every job that has not ended is cancelled.
CancelRun ==
    /\ \E job \in DOMAIN status : status[job] \notin Concluded
    /\ status' = [job \in DOMAIN status |->
                    IF status[job] \in Concluded THEN status[job]
                    ELSE "cancelled"]
    /\ UNCHANGED <<event, trigger, other, notebook>>

NextRun ==
    \/ \E job \in DOMAIN status : StartJob(job)
    \/ \E job \in DOMAIN status : SkipJob(job)
    \/ \E job \in DOMAIN status :
          \E conclusion \in {"success", "failure"} : FinishJob(job, conclusion)
    \/ CancelRun

Tests == InitRun /\ [][NextRun]_vars

\* ------------------------------------------- runs and concurrency groups
\* Two runs of the workflow: the one whose jobs are followed above, and
\* another one, of which only the state is kept.

\* What triggers a run: a pull request (github.event.pull_request.number is
\* set, github.ref is its merge ref) or a push, the schedule or a manual
\* dispatch on main (no pull request).
Triggers ==
    {[event |-> "pull_request", number |-> "1", ref |-> "refs/pull/1/merge"],
     [event |-> "pull_request", number |-> "2", ref |-> "refs/pull/2/merge"],
     [event |-> "push", number |-> "", ref |-> "refs/heads/main"],
     [event |-> "schedule", number |-> "", ref |-> "refs/heads/main"],
     [event |-> "workflow_dispatch", number |-> "", ref |-> "refs/heads/main"]}

\* What the other run is triggered for.
OtherTriggers == {[number |-> t.number, ref |-> t.ref] : t \in Triggers}

\* A group that is the workflow alone: group: ${{ github.workflow }}.
Group_of_workflow(run) == <<"tests">>

\* concurrency.group:
\* ${{ github.workflow }}-${{ github.event.pull_request.number || github.ref }}
Group(run) == <<"tests", IF run.number # "" THEN run.number ELSE run.ref>>

\* concurrency.cancel-in-progress
CancelInProgress == TRUE

\* The followed run is in progress: triggered, and a job of it has not ended.
InProgress ==
    \E job \in DOMAIN status : status[job] \notin Concluded

\* The followed run with the jobs that have not ended cancelled.
Cancelled ==
    [job \in DOMAIN status |->
        IF status[job] \in Concluded THEN status[job] ELSE "cancelled"]

\* No run of the workflow has been triggered.
InitWorkflow ==
    /\ event = "none"
    /\ status = <<>>
    /\ trigger = [number |-> "", ref |-> ""]
    /\ other = [number |-> "", ref |-> "", state |-> "none"]
    /\ section = "none"
    /\ obj = <<>>
    /\ current = <<>>
    /\ dirty = <<>>
    /\ watchers = <<>>
    /\ pc = "idle"
    /\ pending = ""
    /\ last = [op |-> "init"]
    /\ ran = <<>>
    /\ out = <<>>
    /\ plain = <<>>

\* The followed run is triggered: its jobs are queued, and the run of its
\* group that is in progress is cancelled.
TriggerRun(t) ==
    /\ event = "none"
    /\ t \in Triggers
    /\ event' = t.event
    /\ trigger' = [number |-> t.number, ref |-> t.ref]
    /\ status' = [job \in Jobs(t.event) |-> "queued"]
    /\ other' = IF /\ CancelInProgress
                   /\ other.state = "in_progress"
                   /\ Group(other) = Group(t)
                   THEN [other EXCEPT !.state = "cancelled"]
                   ELSE other
    /\ UNCHANGED notebook

\* The other run is triggered: it is in progress, and the followed run is
\* cancelled if it is in progress in the same group.
TriggerOther(t) ==
    /\ other.state = "none"
    /\ t \in OtherTriggers
    /\ other' = [number |-> t.number, ref |-> t.ref, state |-> "in_progress"]
    /\ status' = IF /\ CancelInProgress
                    /\ InProgress
                    /\ Group(trigger) = Group(t)
                    THEN Cancelled
                    ELSE status
    /\ UNCHANGED <<event, trigger, notebook>>

\* The jobs of the other run end.
FinishOther ==
    /\ other.state = "in_progress"
    /\ other' = [other EXCEPT !.state = "completed"]
    /\ UNCHANGED <<event, status, trigger, notebook>>

NextWorkflow ==
    \/ \E t \in Triggers : TriggerRun(t)
    \/ \E t \in OtherTriggers : TriggerOther(t)
    \/ FinishOther
    \/ \E job \in DOMAIN status : StartJob(job)
    \/ \E job \in DOMAIN status : SkipJob(job)
    \/ \E job \in DOMAIN status :
          \E conclusion \in {"success", "failure"} : FinishJob(job, conclusion)

Concurrency == InitWorkflow /\ [][NextWorkflow]_vars

\* ---------------------------------------------------------------- claims

\* The statement that ran last assigned a new value to root r.
Changed(r) ==
    /\ last.op = "set"
    /\ last.name = r
    /\ last.old # last.new

\* The statement that ran last read n.rx.value.
ReadOf(n) == last.op = "read" /\ last.name = n

\* C1: for i = rx(v) and j = i + 1, after any sequence of assignments to
\* i.rx.value a read of j.rx.value returns the current value of i plus 1,
\* never a value computed from an earlier value of i.
C1_JFollowsI ==
    (section = "how_it_works" /\ pc = "idle") =>
        /\ Value(section, obj, State, "j") = obj.i + 1
        /\ ReadOf("j") => last.value = obj.i + 1

\* C1 witness: j is read after i was assigned a value other than its first,
\* the operation having been applied again for that read.
C1_Witness ==
    /\ section = "how_it_works"
    /\ ReadOf("j")
    /\ obj.i = 2
    /\ last.value = 3
    /\ ran # <<>>

\* C2: an expression of several roots reflects the current value of each of
\* them after any interleaving of their updates: expr is a + b + 3 for the
\* Parameters p.a and p.b, styled_df is the first nrows rows styled with
\* the current style filled with the current color.
C2_SeveralRoots ==
    /\ (section = "parameters" /\ pc = "idle") =>
        /\ Value(section, obj, State, "expr") = obj.a + obj.b + 3
        /\ ReadOf("expr") => last.value = obj.a + obj.b + 3
    /\ (section = "getting_started" /\ pc = "idle") =>
        LET rows == [k \in 1 .. Min(obj.nrows, DfRows) |-> k]
            css == <<obj.style[1], obj.color>>
        IN  /\ Value(section, obj, State, "styled_df") =
                    [data |-> rows, props |-> css]
            /\ ReadOf("styled_df") =>
                    last.value = [data |-> rows, props |-> css]

\* C2 witness: expr is read as 7 once both p.a and p.b were assigned 2.
C2_Witness ==
    /\ section = "parameters"
    /\ ReadOf("expr")
    /\ obj.a = 2
    /\ obj.b = 2
    /\ last.value = 7

C4_UpdatingToggles ==
    /\ [](section = "rx_updating" =>
            /\ pc \in {"idle", "pre"} => current.updating = FALSE
            /\ pc \in {"invalidate", "notify", "post"} =>
                    current.updating = TRUE
            /\ pc = "idle" => ~dirty.piped
            /\ (pc = "idle" /\ Changed("expr")) =>
                /\ out = <<[kind |-> "display", node |-> "updating",
                            value |-> TRUE],
                           [kind |-> "display", node |-> "updating",
                            value |-> FALSE]>>
                /\ current.piped = obj.expr)
    /\ [][(section = "rx_updating" /\ ran' # ran /\ ran' # <<>>) =>
            /\ current.updating = TRUE
            /\ ran'[Len(ran')].args = <<obj.expr, "calculate">>]_vars

\* C4 witness: an update of expr has completed; calculate ran for it and
\* updating was shown True, then False.
C4_Witness ==
    /\ section = "rx_updating"
    /\ pc = "idle"
    /\ Changed("expr")
    /\ Len(ran) = 1
    /\ Len(out) = 2
    /\ current.updating = FALSE

\* C5: while gate is not updated, no change of a or b and no read invokes
\* expensive_function through gated_expr, and gated_expr keeps its value:
\* a read of gated_expr.rx.value returns the value it had before.
C5_GateHolds ==
    /\ [](section = "rx_when" =>
            /\ (\E k \in DOMAIN ran : ran[k].via = "gated_expr") =>
                    Changed("gate")
            /\ ReadOf("gated_expr") => last.value = current.gated_expr)
    /\ [][(section = "rx_when" /\ pending # "gate") =>
            current'.gated_expr = current.gated_expr]_vars

\* C5 witness: gated_expr is read as 2, its first value, after a and b
\* became 2 and 1 with the gate untouched.
C5_Witness ==
    /\ section = "rx_when"
    /\ ReadOf("gated_expr")
    /\ obj.a = 2
    /\ obj.b = 1
    /\ obj.gate = FALSE
    /\ last.value = 1 * 2
    /\ ran = <<>>

\* C6: when the gate is updated gated_expr is re-computed, shown, and its
\* value is expensive_function of the values a and b hold at that moment.
C6_GateReleases ==
    (section = "rx_when" /\ pc = "idle" /\ Changed("gate")) =>
        /\ current.gated_expr = obj.a * obj.b
        /\ ~dirty.gated_expr
        /\ Value(section, obj, State, "gated_expr") = obj.a * obj.b
        /\ out = <<[kind |-> "display", node |-> "gated_expr",
                    value |-> obj.a * obj.b]>>

\* C6 witness: the gate was updated after a and b both became 2, and
\* expensive_function was invoked once, through gated_expr, with 2 and 2.
C6_Witness ==
    /\ section = "rx_when"
    /\ pc = "idle"
    /\ Changed("gate")
    /\ obj.a = 2
    /\ obj.b = 2
    /\ current.gated_expr = 4
    /\ ran = <<[via |-> "gated_expr", node |-> "expensive_expr",
                args |-> <<"expensive_function", 2, 2>>]>>

\* C7: ternary_expr = condition.rx.where(a, b) has the current value of a
\* when the current condition is true and the current value of b when it
\* is false, after any sequence of updates of condition, a and b.
C7_Where ==
    (section = "rx_where" /\ pc = "idle") =>
        LET want == IF obj.condition THEN obj.a ELSE obj.b
        IN  /\ Value(section, obj, State, "ternary_expr") = want
            /\ ReadOf("ternary_expr") => last.value = want

\* C7 witness: ternary_expr is read as 0, the value b was given after the
\* condition was set to False.
C7_Witness ==
    /\ section = "rx_where"
    /\ ReadOf("ternary_expr")
    /\ obj.condition = FALSE
    /\ obj.a = 1
    /\ obj.b = 0
    /\ last.value = 0

\* C8: while condition is False an assignment to a notifies and re-computes
\* nothing (ternary_expr stays up to date with the value of b); once the
\* condition is reversed ternary_expr is shown with the value a has then.
C8_UnselectedBranch ==
    /\ (section = "rx_where" /\ last.op = "set" /\ last.name = "a"
            /\ obj.condition = FALSE) =>
        /\ out = <<>>
        /\ ran = <<>>
        /\ ~dirty.ternary_expr
        /\ current.ternary_expr = obj.b
    /\ (section = "rx_where" /\ pc = "idle" /\ Changed("condition")
            /\ obj.condition = TRUE) =>
        out = <<[kind |-> "display", node |-> "ternary_expr",
                 value |-> obj.a]>>

\* C8 witness: a was assigned a new value while condition was False.
C8_Witness ==
    /\ section = "rx_where"
    /\ pc = "idle"
    /\ Changed("a")
    /\ obj.condition = FALSE
    /\ obj.a = 0

\* The values the statement that ran last passed to rx.watch callbacks.
Callbacks == SelectSeq(out, LAMBDA e : e.kind = "watch")

\* C9: the callback given to c.rx.watch runs once for each update of c,
\* with the value c has after the update, and does not run for a statement
\* that updates nothing (a read, an assignment of the value c has).
C9_WatchCallback ==
    (section = "rx_watch" /\ pc = "idle") =>
        IF Changed("c")
            THEN /\ Callbacks =
                        <<[kind |-> "watch", node |-> "c", value |-> obj.c]>>
                 /\ obj.c = last.new
            ELSE Callbacks = <<>>

\* C9 witness: c was updated to 2 and the callback got 2.
C9_Witness ==
    /\ section = "rx_watch"
    /\ pc = "idle"
    /\ Changed("c")
    /\ Len(Callbacks) = 1
    /\ Callbacks[1].value = 2

\* j.rx.watch() was called.
Watched(n) == \E k \in DOMAIN watchers : watchers[k] = Eager(n)

\* C10: once j.rx.watch() was called without arguments, every change of i
\* re-executes i + 1 within the assignment; before, the assignment executes
\* nothing and leaves j out of date until its value is next read.
C10_WatchEager ==
    (section = "how_it_works" /\ pc = "idle" /\ Changed("i")) =>
        IF Watched("j")
            THEN /\ ran = <<[via |-> "j", node |-> "j",
                             args |-> <<obj.i, 1>>]>>
                 /\ ~dirty.j
                 /\ current.j = obj.i + 1
                 /\ out = <<>>
            ELSE /\ ran = <<>>
                 /\ dirty.j

\* C10 witness: with j watched, an assignment of 2 to i has executed 2 + 1.
C10_Witness ==
    /\ section = "how_it_works"
    /\ pc = "idle"
    /\ Changed("i")
    /\ Watched("j")
    /\ obj.i = 2
    /\ current.j = 3
    /\ Len(ran) = 1

\* C11: df = rx(pd.read_csv)(url) wraps the call of the function: after every
\* assignment to url.rx.value, df and what is derived from it (df.head(2))
\* are pd.read_csv applied to the current url; the head shown by an
\* assignment is the head of the frame at the newly assigned URL.
C11_ReactiveFunction ==
    (section = "reactive_functions" /\ pc = "idle") =>
        /\ Value(section, obj, State, "df") = read_csv(obj.url)
        /\ Value(section, obj, State, "df_head_2") =
                SubSeq(read_csv(obj.url), 1, 2)
        /\ ReadOf("df") => last.value = read_csv(obj.url)
        /\ Changed("url") =>
                out = <<[kind |-> "display", node |-> "df_head_2",
                         value |-> SubSeq(read_csv(last.new), 1, 2)]>>

\* C11 witness: url was assigned the gapminders URL, pd.read_csv was called
\* with it and the head of the gapminders frame was shown.
C11_Witness ==
    /\ section = "reactive_functions"
    /\ pc = "idle"
    /\ Changed("url")
    /\ obj.url = Gapminders
    /\ ran[1].args = <<"read_csv", Gapminders>>
    /\ out[1].value = <<DfRows + 1, DfRows + 2>>

\* C12: x.rx.pipe(func, *args) is always func applied to the current value
\* of x and the arguments, a reactive argument standing for its current
\* value: rx(1).rx.pipe(f, 2) is 3, x.rx.pipe(f, 2) is x + 2 and
\* x.rx.pipe(f, y) is x + y; f is called again when x changes and when the
\* reactive argument y changes, with the values they then have.
C12_Pipe ==
    (section = "rx_pipe" /\ pc = "idle") =>
        LET f_2 == [via |-> "pipe_f_2", node |-> "pipe_f_2",
                    args |-> <<obj.x, "f", 2>>]
            f_y == [via |-> "pipe_f_y", node |-> "pipe_f_y",
                    args |-> <<obj.x, "f", obj.y>>]
        IN  /\ Value(section, obj, State, "pipe_f_2") = f(obj.x, 2)
            /\ Value(section, obj, State, "pipe_f_y") = f(obj.x, obj.y)
            /\ last.op = "init" => current.pipe_f_2 = 3
            /\ ReadOf("pipe_f_2") => last.value = obj.x + 2
            /\ ReadOf("pipe_f_y") => last.value = obj.x + obj.y
            /\ Changed("x") =>
                /\ ran = <<f_2, f_y>>
                /\ out = <<[kind |-> "display", node |-> "pipe_f_2",
                            value |-> last.new + 2],
                           [kind |-> "display", node |-> "pipe_f_y",
                            value |-> last.new + obj.y]>>
            /\ Changed("y") =>
                /\ ran = <<f_y>>
                /\ out = <<[kind |-> "display", node |-> "pipe_f_y",
                            value |-> obj.x + last.new]>>

\* C12 witness: the reactive argument y was assigned 0 after x had been
\* assigned 2; f was called with 2 and 0 and the piped value shown is 2.
C12_Witness ==
    /\ section = "rx_pipe"
    /\ pc = "idle"
    /\ Changed("y")
    /\ obj.x = 2
    /\ obj.y = 0
    /\ ran[1].args = <<2, "f", 0>>
    /\ out[1].value = 2
    /\ current.pipe_f_2 = 4

\* C13: the special methods of .rx return reactive expressions whose value
\* is the Python operation applied to the current value: and_ and or_ give
\* one of their operands (rx(True).rx.and_(False) is False,
\* rx(False).rx.or_('A value') is 'A value'), not_ and bool the truth value,
\* in_ the membership in the collection, is_ and is_not the identity with
\* the argument, and obj.rx.len() the length of obj after every update of
\* it, which an update shows at once.
C13_SpecialMethods ==
    /\ (section = "special_and_or" /\ pc = "idle") =>
        /\ Value(section, obj, State, "rx_and_") = FALSE
        /\ IF obj.rx_False
              THEN Value(section, obj, State, "rx_or_") = TRUE
              ELSE Value(section, obj, State, "rx_or_") = "A value"
        /\ Value(section, obj, State, "rx_not_") = ~obj.rx_True
    /\ (section = "special_in_bool" /\ pc = "idle") =>
        /\ Value(section, obj, State, "rx_in_") = (obj.rx_2 \in {1, 2, 3})
        /\ Value(section, obj, State, "rx_bool") = (obj.rx_2 # 0)
    /\ (section = "special_is" /\ pc = "idle") =>
        /\ Value(section, obj, State, "rx_is_") = (obj.rx_None = None)
        /\ Value(section, obj, State, "rx_is_not") = (obj.rx_None # None)
    /\ (section = "special_len" /\ pc = "idle") =>
        /\ Value(section, obj, State, "rx_len") = Len(obj.obj)
        /\ ReadOf("rx_len") => last.value = Len(obj.obj)
        /\ Changed("obj") =>
                out = <<[kind |-> "display", node |-> "rx_len",
                         value |-> Len(last.new)]>>

\* C13 witness: obj was assigned the empty list and the length shown is 0.
C13_Witness ==
    /\ section = "special_len"
    /\ pc = "idle"
    /\ Changed("obj")
    /\ obj.obj = <<>>
    /\ ran[1].args = <<<<>>>>
    /\ out[1].value = 0

\* The statement that ran last called the bound function n.
CallOf(n) == last.op = "call" /\ last.name = n

\* C14: param.bind follows functools.partial: a call of the bound function
\* gives the function applied to the current values of the bound Parameters,
\* the static values as given and the call's own arguments (reactive_add()
\* is add(p.a, p.b), add_b(5) is add(p.a, 5), b=38 stays 38); what the call
\* returns is a concrete value that no later change of a Parameter updates.
C14_BindPartial ==
    /\ [](section = "param_bind" =>
            /\ CallOf("reactive_add") =>
                /\ last.value = obj.a + obj.b
                /\ ran[1].args = <<"add", obj.a, obj.b>>
            /\ CallOf("add_b") =>
                /\ last.value = obj.a + last.args[1]
                /\ ran[1].args = <<"add", obj.a, last.args[1]>>
            /\ CallOf("add_a_38") =>
                /\ last.value = obj.a + 38
                /\ ran[1].args = <<"add", obj.a, 38>>
            /\ last.op = "call" => plain = <<last.value>>)
    /\ [][(section = "param_bind" /\ last'.op # "call") =>
            plain' = plain]_vars

\* C14 witness: add_b(5) returned 7 when p.a was 2, p.b was then assigned
\* a new value, and the returned 7 is still what the caller holds.
C14_Witness ==
    /\ section = "param_bind"
    /\ pc = "idle"
    /\ Changed("b")
    /\ obj.a = 2
    /\ plain = <<7>>

\* C15: a function bound with param.bind(add, p.param.a, p.param.b) is
\* invoked when an input Parameter changes: while it is displayed every
\* change of p.a or p.b calls add with the current values of both and the
\* output shows the result when the assignment returns; a value bound
\* statically (b=38) stays what it was and a change of p.b does not call
\* the function it is bound to.
C15_BindDisplayed ==
    (section = "param_bind" /\ pc = "idle") =>
        LET called == [via |-> "reactive_add", node |-> "reactive_add",
                       args |-> <<"add", obj.a, obj.b>>]
            shown == [kind |-> "display", node |-> "reactive_add",
                      value |-> obj.a + obj.b]
            called_38 == [via |-> "add_a_38", node |-> "add_a_38",
                          args |-> <<"add", obj.a, 38>>]
            shown_38 == [kind |-> "display", node |-> "add_a_38",
                         value |-> obj.a + 38]
        IN  /\ Changed("a") =>
                /\ ran = <<called, called_38>>
                /\ out = <<shown, shown_38>>
            /\ Changed("b") =>
                /\ ran = <<called>>
                /\ out = <<shown>>

\* C15 witness: p.a was assigned 2 while p.b was 2; add was called with 2
\* and 2 and the displayed output became 4.
C15_Witness ==
    /\ section = "param_bind"
    /\ pc = "idle"
    /\ Changed("a")
    /\ obj.a = 2
    /\ obj.b = 2
    /\ ran[1].args = <<"add", 2, 2>>
    /\ out[1].value = 4

\* C16: .rx() on a fully bound function gives a reactive expression: for
\* param.bind(add, p.param.a, p.param.b).rx() / 2 the value is, after any
\* changes of p.a and p.b, add of their current values divided by 2 (a
\* whole number of halves), and a change shows it at once.
C16_BoundRx ==
    (section = "bind_rx" /\ pc = "idle") =>
        LET sum == obj.a + obj.b
            half == IF sum % 2 = 0
                        THEN [num |-> sum \div 2, den |-> 1]
                        ELSE [num |-> sum, den |-> 2]
        IN  /\ Value(section, obj, State, "bound_rx") = sum
            /\ Value(section, obj, State, "bound_rx_half") = half
            /\ ReadOf("bound_rx_half") => last.value = half
            /\ (Changed("a") \/ Changed("b")) =>
                /\ out = <<[kind |-> "display", node |-> "bound_rx_half",
                            value |-> half]>>
                /\ ran[1].args = <<"add", obj.a, obj.b>>

\* C16 witness: p.b was assigned 1 while p.a was 2; add was called with 2
\* and 1 and the expression shown is 3/2.
C16_Witness ==
    /\ section = "bind_rx"
    /\ pc = "idle"
    /\ Changed("b")
    /\ obj.a = 2
    /\ obj.b = 1
    /\ ran[1].args = <<"add", 2, 1>>
    /\ out[1].value = [num |-> 3, den |-> 2]

\* C18: a read of a derived expression retrieves its most recent result and
\* applies the recorded operation again only if an input changed since the
\* last evaluation: a read of j.rx.value executes i + 1 at most once, a read
\* that follows a read of j executes nothing, and from an update of i to
\* the read that follows it i + 1 is executed once, with the new i; in a
\* chain the operations run in the order they were recorded, a + b before
\* + 3, each on the result of the one before.
C18_ReadReplays ==
    /\ [](/\ (section = "how_it_works" /\ ReadOf("j")) =>
               /\ Len(ran) <= 1
               /\ last.value = obj.i + 1
          /\ \A k, m \in DOMAIN ran :
               (/\ ran[m].node \in Exprs(section)
                /\ ran[k].node \in RefsOf(Expr(section, ran[m].node)))
                   => k < m
          /\ section = "parameters" =>
               /\ \A m \in DOMAIN ran :
                   /\ (ran[m].node = "a_plus_b") =>
                           (ran[m].args = <<obj.a, obj.b>>)
                   /\ (ran[m].node = "expr") =>
                           (ran[m].args = <<obj.a + obj.b, 3>>)
               /\ (pc = "idle" /\ (Changed("a") \/ Changed("b"))) =>
                   /\ Len(ran) = 2
                   /\ ran[1].node = "a_plus_b"
                   /\ ran[2].node = "expr")
    /\ [][(section = "how_it_works" /\ pc = "idle" /\ ReadOf("j")') =>
            /\ ReadOf("j") => ran' = <<>>
            /\ (last.op = "set" /\ last.old # last.new) =>
                /\ Len(ran) + Len(ran') = 1
                /\ (ran \o ran')[1].args = <<obj.i, 1>>]_vars

\* C18 witness: j, which nothing watches, is read as 3 for i = 2 without
\* i + 1 being executed: the result of an earlier read is retrieved.
C18_Witness ==
    /\ section = "how_it_works"
    /\ watchers = <<>>
    /\ ReadOf("j")
    /\ obj.i = 2
    /\ last.value = 3
    /\ ran = <<>>

\* C19: without a gate, expensive_expr = rx(expensive_function)(a, b) is
\* triggered once per change of a root: while it is watched, every
\* assignment that changes a or b calls expensive_function once before it
\* returns, with the newly assigned value and the value the other root had
\* (which the assignment leaves as it was), so two assignments make two
\* calls and are not coalesced into one.
C19_NoGate ==
    /\ []((section = "rx_when" /\ pc = "idle" /\ Watched("expensive_expr"))
            =>
            /\ Changed("a") =>
                    ran = <<[via |-> "expensive_expr",
                             node |-> "expensive_expr",
                             args |-> <<"expensive_function",
                                        last.new, obj.b>>]>>
            /\ Changed("b") =>
                    ran = <<[via |-> "expensive_expr",
                             node |-> "expensive_expr",
                             args |-> <<"expensive_function",
                                        obj.a, last.new>>]>>)
    /\ [][(section = "rx_when" /\ pc = "idle" /\ pc' = "pre") =>
            /\ pending' = "a" => obj'.b = obj.b
            /\ pending' = "b" => obj'.a = obj.a
            /\ ran' = <<>>]_vars

\* C19 witness: with expensive_expr watched, a was assigned 0 and then b was
\* assigned 0; the second assignment called expensive_function with 0 and 0.
C19_Witness ==
    /\ section = "rx_when"
    /\ pc = "idle"
    /\ Watched("expensive_expr")
    /\ Changed("b")
    /\ obj.a = 0
    /\ obj.b = 0
    /\ Len(ran) = 1
    /\ ran[1].args = <<"expensive_function", 0, 0>>

\* The job has started: it runs or has run to its end.
Started(job) == status[job] \in {"in_progress", "success", "failure"}

\* C20: in the tests workflow no job of the test_suite matrix starts before
\* pre_commit has completed successfully (needs: [pre_commit]): a test job
\* starts only in a state where pre_commit has succeeded, the conclusion of
\* pre_commit never changes, and when pre_commit failed or was cancelled no
\* test job has run or runs.
C20_NeedsPreCommit ==
    /\ [](\A job \in test_suite(event) :
            /\ Started(job) => status[pre_commit] = "success"
            /\ status[pre_commit] \in {"failure", "cancelled"} =>
                    status[job] \in {"queued", "skipped", "cancelled"})
    /\ [][/\ \A job \in test_suite(event) :
               (status'[job] = "in_progress" /\ status[job] # "in_progress")
                   => status[pre_commit] = "success"
          /\ status[pre_commit] \in Concluded =>
               status'[pre_commit] = status[pre_commit]]_vars

\* C20 witness: pre_commit has succeeded and one job of the matrix runs while
\* another is still queued.
C20_Witness ==
    /\ event = "pull_request"
    /\ status[pre_commit] = "success"
    /\ status[<<"test_suite", "ubuntu-latest", "3.8">>] = "in_progress"
    /\ status[<<"test_suite", "windows-latest", "3.8">>] = "queued"

\* The two runs are for the same pull request or, neither being for a pull
\* request, for the same ref.
SameGroup ==
    IF trigger.number # "" \/ other.number # ""
        THEN trigger.number = other.number
        ELSE trigger.ref = other.ref

\* C21: in the tests workflow at most one run is in progress per concurrency
\* group (the pull request, or the ref when there is none): a run that is
\* triggered cancels the run of its group that is in progress and leaves a
\* run of another group as it is, in both directions; and within a run the
\* failure of a job of the matrix leaves the other jobs of the matrix as
\* they are (fail-fast: false).
C21_ConcurrencyGroup ==
    /\ []((InProgress /\ other.state = "in_progress") => ~SameGroup)
    /\ [][/\ (other.state = "none" /\ other'.state = "in_progress") =>
               status' = IF SameGroup' THEN Cancelled ELSE status
          /\ (event = "none" /\ event' # "none") =>
               other' = IF SameGroup' /\ other.state = "in_progress"
                           THEN [other EXCEPT !.state = "cancelled"]
                           ELSE other
          /\ \A job \in DOMAIN status :
               (/\ job[1] = "test_suite"
                /\ status[job] = "in_progress"
                /\ status'[job] = "failure") =>
                   \A k \in DOMAIN status \ {job} : status'[k] = status[k]
         ]_vars

\* C21 witness: the run for pull request 1 was cancelled while a job of its
\* matrix ran, by a newer run for the same pull request, which is in
\* progress.
C21_Witness ==
    /\ event = "pull_request"
    /\ trigger.number = "1"
    /\ other.number = "1"
    /\ other.state = "in_progress"
    /\ status[pre_commit] = "success"
    /\ status[<<"test_suite", "ubuntu-latest", "3.8">>] = "cancelled"
    /\ status[<<"test_suite", "windows-latest", "3.8">>] = "failure"
    /\ status[<<"test_suite", "macos-latest", "3.8">>] = "success"

\* C22: the value of an expression built without an rx.when gate is a
\* function of the current values of its roots, not of the updates that led
\* to them: whenever no assignment is in progress every expression has the
\* value it gets when built anew from the values the roots hold, so that
\* with every root back at its first value (url back to URL, color back to
\* 'darkblue') every expression has its first value again.
C22_NoHistory ==
    (section # "rx_when" /\ pc = "idle") =>
        \A n \in Exprs(section) :
            /\ Value(section, obj, State, n) =
                    BuiltFrom(section, obj).current[n]
            /\ obj = Section(section).roots =>
                    Value(section, obj, State, n) = Built(section).current[n]

\* C22 witness: url was assigned the gapminders URL and then URL again, and
\* df.head(2) is the head of the penguins frame, as at first.
C22_Witness ==
    /\ section = "reactive_functions"
    /\ pc = "idle"
    /\ Changed("url")
    /\ last.old = Gapminders
    /\ obj.url = URL
    /\ current.df_head_2 = <<1, 2>>
    /\ out[1].value = <<1, 2>>

====
